---- MODULE Spec2Model ----
(***************************************************************************)
(* The audio playback controller of src/src/App.js (AudioPlayerProvider):  *)
(* the React state of the provider, the closures its callbacks capture,    *)
(* the single HTMLAudioElement it drives, the progress timer, and the      *)
(* asynchronous playSong / resumeSong invocations that are in flight.      *)
(*                                                                         *)
(* One step of the model is one browser task: a user call, a timer tick, a *)
(* network completion or a media event, together with the re-render it     *)
(* causes.  Continuations of rejected play() promises are microtasks:      *)
(* they run before any other task (MicrotaskPending guards every task).    *)
(* Song objects are identified by their track number, indices are 0-based  *)
(* as in the code.                                                         *)
(***************************************************************************)
EXTENDS Integers, Sequences, FiniteSets

VARIABLES
    currentSong,   \* useState(null)        line 67
    isPlaying,     \* useState(false)       line 68
    currentTime,   \* useState(0)           line 69
    duration,      \* useState(0)           line 70
    volume,        \* useState(0.7), tenths line 71
    isMuted,       \* useState(false)       line 72
    isShuffled,    \* useState(false)       line 73
    isRepeat,      \* useState(false)       line 74
    queue,         \* useState([])          line 75
    currentIndex,  \* useState(0)           line 76
    audio,         \* audioRef.current, the HTMLAudioElement
    timers,        \* the intervals that are set and not cleared, oldest first
    intervalRef,   \* what intervalRef.current holds
    hse,           \* what the playNext captured by the current handleSongEnd sees
    calls,         \* the playSong / resumeSong invocations suspended at an await
    toasts         \* the notifications the last task emitted, in order

vars == <<currentSong, isPlaying, currentTime, duration, volume, isMuted,
          isShuffled, isRepeat, queue, currentIndex, audio, timers,
          intervalRef, hse, calls, toasts>>

-----------------------------------------------------------------------------
(* Bounds of the model *)

\* length in seconds of every media resource and track; positions are 0..MaxTime
MaxTime == 2
\* playSong / resumeSong invocations in flight at once
MaxCalls == 2
\* longest queue addToQueue builds
MaxQueue == 3

-----------------------------------------------------------------------------
(* Data *)

\* currentSong = null
NoSong == 0
\* useState(0.7), in tenths
InitialVolume == 7

\* the catalogue: tracks A, B and C
Tracks == {1, 2, 3}

\* song.preview_url: track A has none and needs the search
HasPreview(t) == t # 1

NoSrc == <<>>
\* let audioUrl = song.preview_url
DirectUrl(t) == <<"direct", t>>
\* the candidate the search found, bound as it is
ProxyUrlUnwrapped(t) == <<"itunes", t>>
\* `${API}/audio/proxy?url=${encodeURIComponent(itunesPreviewUrl)}`
ProxyUrl(t) == <<"proxied", t>>

\* song.duration_ms / 1000
TrackSeconds(t) == MaxTime
\* audio.duration of a loaded resource: a searched preview clip is one second
\* shorter than a direct one
MediaDuration(u) == IF u # NoSrc /\ u[1] = "proxied" THEN MaxTime - 1 ELSE MaxTime

Times == 0..MaxTime
Volumes == {3, InitialVolume}
\* playlist.songs of the playlists the UI shows
Playlists == {<<1, 2, 3>>}

\* queue[i] of a JavaScript array: NoSong stands for undefined
Elem(q, i) == IF i \in 0..(Len(q) - 1) THEN q[i + 1] ELSE NoSong

\* the state a playNext closure captured
ClosureOf(rep, song, q, idx, shuf) ==
    [repeat |-> rep, song |-> song, q |-> q, idx |-> idx, shuf |-> shuf]

\* handleSongEnd of the first render, the one the 'ended' listener keeps
MountClosure == ClosureOf(FALSE, NoSong, <<>>, 0, FALSE)

Toast(level, msg, song) == [level |-> level, msg |-> msg, song |-> song]

RealTimer == [kind |-> "real", dur |-> 0, hs |-> MountClosure]
SimTimer(d, cl) == [kind |-> "sim", dur |-> d, hs |-> cl]

Call(kind, song, url, pc, d, cl) ==
    [kind |-> kind, song |-> song, url |-> url, pc |-> pc, dur |-> d, hs |-> cl]

-----------------------------------------------------------------------------
(* The audio element *)

\* audioRef.current.duration || fallback : NaN until the metadata is loaded
AudioDuration(a, fallback) ==
    IF a.ready \in {"meta", "ready"} /\ MediaDuration(a.src) # 0
    THEN MediaDuration(a.src) ELSE fallback

\* the position the element reports after currentTime = time: while nothing is
\* loaded the value is kept as the start position and reads back as set, on a
\* loaded resource the seek stops at the end of the resource
SeekTarget(a, time) ==
    IF a.ready \in {"meta", "ready"} /\ time > MediaDuration(a.src)
    THEN MediaDuration(a.src) ELSE time

\* sound is coming out
Audible(a) == a.src # NoSrc /\ ~a.paused /\ a.ready = "ready"

\* the play() promises that are pending
PendingPcs == {"play1", "play2", "rplay"}
RejectedPc(pc) == CASE pc = "play1" -> "play1Rej"
                    [] pc = "play2" -> "play2Rej"
                    [] pc = "rplay" -> "rplayRej"
                    [] OTHER -> pc
ReadyPcs == {"play1Rej", "play2Rej", "rplayRej"}

\* pause() and the load algorithm reject the pending play() promises
RejectPending(cs) ==
    [i \in DOMAIN cs |->
        IF cs[i].pc \in PendingPcs
        THEN [cs[i] EXCEPT !.pc = RejectedPc(cs[i].pc)] ELSE cs[i]]

MicrotaskPending == \E i \in DOMAIN calls : calls[i].pc \in ReadyPcs

Remove(cs, i) == SubSeq(cs, 1, i - 1) \o SubSeq(cs, i + 1, Len(cs))

-----------------------------------------------------------------------------
(* The progress timer *)

\* if (intervalRef.current) clearInterval(intervalRef.current)
ClearInterval(ts, ref) == IF ref = "live" THEN SubSeq(ts, 1, Len(ts) - 1) ELSE ts

\* a setInterval that forgets the clearInterval before it
StartTimerWithoutClear(ts, ref, t) == Append(ts, t)

\* the clear-then-set of lines 449-456, 472-479, 514-521, 527-539, 547-559
StartTimer(ts, ref, t) == Append(ClearInterval(ts, ref), t)

-----------------------------------------------------------------------------
(* Rendering *)

\* useCallback(handleSongEnd, [isRepeat, currentSong]): a new handleSongEnd, and
\* with it the playNext of this render, only when one of the two changed
Rerender ==
    hse' = IF currentSong' # currentSong \/ isRepeat' # isRepeat
           THEN [q |-> queue', idx |-> currentIndex', shuf |-> isShuffled']
           ELSE hse

\* the handleSongEnd the latest render hands to resumeSong
CurrentClosure == ClosureOf(isRepeat, currentSong, hse.q, hse.idx, hse.shuf)

Init ==
    /\ currentSong = NoSong
    /\ isPlaying = FALSE
    /\ currentTime = 0
    /\ duration = 0
    /\ volume = InitialVolume
    /\ isMuted = FALSE
    /\ isShuffled = FALSE
    /\ isRepeat = FALSE
    /\ queue = <<>>
    /\ currentIndex = 0
    /\ audio = [src |-> NoSrc, paused |-> TRUE, pos |-> 0, ready |-> "empty",
                cross |-> "anonymous", vol |-> InitialVolume, onerror |-> FALSE]
    /\ timers = <<>>
    /\ intervalRef = "null"
    /\ hse = [q |-> <<>>, idx |-> 0, shuf |-> FALSE]
    /\ calls = <<>>
    /\ toasts = <<>>

-----------------------------------------------------------------------------
(* playSong, lines 341-493 *)

\* (a % n) of JavaScript: the sign of the dividend
JsMod(a, n) == IF a >= 0 THEN a % n ELSE 0 - ((0 - a) % n)

\* lines 402-408 and 411-440: stop and rewind the transport, bind the source,
\* install onerror and the canplay/error listeners, load()
Bind(a, url) ==
    [a EXCEPT !.paused = TRUE, !.pos = 0, !.cross = "anonymous", !.src = url,
              !.onerror = TRUE, !.ready = "loading"]

\* no playSong runs: what playSong would write is left alone
NoPlay(a) ==
    /\ currentSong' = currentSong
    /\ queue' = queue
    /\ currentIndex' = currentIndex
    /\ isPlaying' = isPlaying
    /\ audio' = a
    /\ calls' = calls
    /\ toasts' = <<>>

\* a playSong that keeps the queue it is given, also when it is empty
QueueForAsGiven(song, songQueue) == songQueue

\* songQueue.length > 0 ? songQueue : [song], line 346
QueueFor(song, songQueue) == IF Len(songQueue) > 0 THEN songQueue ELSE <<song>>

\* playSong(song, songQueue, index) up to its first await, on the audio element a
PlaySongBody(a, song, songQueue, index) ==
    /\ currentSong' = song
    /\ queue' = QueueFor(song, songQueue)
    /\ currentIndex' = index
    /\ isPlaying' = FALSE
    /\ IF HasPreview(song)
       THEN /\ audio' = Bind(a, DirectUrl(song))
            /\ calls' = Append(RejectPending(calls),
                               Call("play", song, DirectUrl(song), "load", 0, MountClosure))
            /\ toasts' = <<>>
       ELSE /\ audio' = a
            /\ calls' = Append(calls,
                               Call("play", song, NoSrc, "search", 0, MountClosure))
            /\ toasts' = <<Toast("info", "searching", song)>>

\* a call of playSong by the UI (SongCard.handlePlaySong, lines 1140-1149)
PlaySong(song, songQueue, index) ==
    /\ ~MicrotaskPending
    /\ Len(calls) < MaxCalls
    /\ song # NoSong
    /\ PlaySongBody(audio, song, songQueue, index)
    /\ UNCHANGED <<currentTime, duration, volume, isMuted, isShuffled, isRepeat,
                   timers, intervalRef>>
    /\ Rerender

SearchOutcomes == {"found", "none", "error"}

\* an unavailable outcome that goes on to bind and load a source all the same
UnavailableBindsAnyway(i, msg) ==
    /\ toasts' = <<Toast("error", msg, calls[i].song)>>
    /\ isPlaying' = FALSE
    /\ audio' = Bind(audio, DirectUrl(calls[i].song))
    /\ calls' = [RejectPending(calls) EXCEPT
                   ![i] = [@ EXCEPT !.url = DirectUrl(calls[i].song), !.pc = "load"]]

\* invocation i ends unavailable: the error toast, setIsPlaying(false), return
\* (lines 382-388 and 389-394)
Unavailable(i, msg) ==
    /\ toasts' = <<Toast("error", msg, calls[i].song)>>
    /\ isPlaying' = FALSE
    /\ calls' = Remove(calls, i)
    /\ audio' = audio

\* the iTunes search of invocation i completes (lines 363-394), and on a
\* candidate the invocation goes on to bind it (lines 399-440)
SearchDone(i, outcome) ==
    /\ ~MicrotaskPending
    /\ i \in DOMAIN calls
    /\ calls[i].pc = "search"
    /\ LET song == calls[i].song IN
       CASE outcome = "found" ->
              /\ audio' = Bind(audio, ProxyUrl(song))
              /\ calls' = [RejectPending(calls) EXCEPT
                             ![i] = [@ EXCEPT !.url = ProxyUrl(song), !.pc = "load"]]
              /\ toasts' = <<Toast("success", "found", NoSong)>>
              /\ isPlaying' = isPlaying
         [] outcome = "none" -> Unavailable(i, "noPreview")
         [] OTHER -> Unavailable(i, "previewNotAvailable")
    /\ UNCHANGED <<currentSong, queue, currentIndex, currentTime, duration, volume,
                   isMuted, isShuffled, isRepeat, timers, intervalRef>>
    /\ Rerender

-----------------------------------------------------------------------------
(* Events of the audio element *)

\* 'loadedmetadata' (lines 91-93): setDuration(audioRef.current.duration)
LoadedMetadata ==
    /\ ~MicrotaskPending
    /\ audio.ready = "loading"
    /\ audio' = [audio EXCEPT !.ready = "meta",
                              !.pos = SeekTarget([audio EXCEPT !.ready = "meta"], @)]
    /\ duration' = MediaDuration(audio.src)
    /\ toasts' = <<>>
    /\ UNCHANGED <<currentSong, isPlaying, currentTime, volume, isMuted, isShuffled,
                   isRepeat, queue, currentIndex, timers, intervalRef, calls>>
    /\ Rerender

\* the invocations whose canplay/error listeners are installed (lines 436-437)
Waiting(cs) == {i \in DOMAIN cs : cs[i].pc = "load"}

\* 'canplay': handleLoad of every waiting invocation resolves (lines 424-428) and
\* each goes on to await audioRef.current.play() (line 444)
CanPlay ==
    /\ ~MicrotaskPending
    /\ audio.ready = "meta"
    /\ audio' = [audio EXCEPT !.ready = "ready",
                              !.paused = IF Waiting(calls) # {} THEN FALSE ELSE @]
    /\ calls' = [i \in DOMAIN calls |->
                    IF i \in Waiting(calls) THEN [calls[i] EXCEPT !.pc = "play1"]
                    ELSE calls[i]]
    /\ toasts' = <<>>
    /\ UNCHANGED <<currentSong, isPlaying, currentTime, duration, volume, isMuted,
                   isShuffled, isRepeat, queue, currentIndex, timers, intervalRef>>
    /\ Rerender

\* the toasts of the outer catch (line 490) of the invocations in ws, in call order
RECURSIVE FailedToasts(_, _)
FailedToasts(cs, ws) ==
    IF cs = <<>> THEN <<>>
    ELSE (IF 1 \in ws THEN <<Toast("error", "failedToPlay", cs[1].song)>> ELSE <<>>)
         \o FailedToasts(Tail(cs), {w - 1 : w \in ws \ {1}})

RECURSIVE Without(_, _)
\* cs without the invocations at the places ws
Without(cs, ws) ==
    IF cs = <<>> THEN <<>>
    ELSE (IF 1 \in ws THEN <<>> ELSE <<cs[1]>>)
         \o Without(Tail(cs), {w - 1 : w \in ws \ {1}})

\* an 'error' event that the waiting invocations do not hear
ErrorEventKeepsWaiting(a) ==
    /\ audio' = a
    /\ isPlaying' = FALSE
    /\ toasts' = <<Toast("error", "failedToPlayAudio", NoSong)>>
                 \o (IF a.onerror THEN <<Toast("error", "failedToLoad", NoSong)>> ELSE <<>>)
    /\ calls' = RejectPending(calls)

\* the 'error' event: handleAudioError (lines 335-339), the onerror handler
\* (lines 411-420), handleError of every waiting invocation (lines 430-434), whose
\* rejection lands in the outer catch (lines 488-492)
ErrorEvent(a) ==
    /\ audio' = a
    /\ isPlaying' = FALSE
    /\ toasts' = <<Toast("error", "failedToPlayAudio", NoSong)>>
                 \o (IF a.onerror THEN <<Toast("error", "failedToLoad", NoSong)>> ELSE <<>>)
                 \o FailedToasts(calls, Waiting(calls))
    /\ calls' = RejectPending(Without(calls, Waiting(calls)))

\* the resource fails to load
LoadError ==
    /\ ~MicrotaskPending
    /\ audio.ready \in {"loading", "meta"}
    /\ ErrorEvent([audio EXCEPT !.ready = "error"])
    /\ UNCHANGED <<currentSong, currentTime, duration, volume, isMuted, isShuffled,
                   isRepeat, queue, currentIndex, timers, intervalRef>>
    /\ Rerender

\* the resource fails while it plays (decode or network failure)
PlaybackError ==
    /\ ~MicrotaskPending
    /\ Audible(audio)
    /\ ErrorEvent([audio EXCEPT !.ready = "error"])
    /\ UNCHANGED <<currentSong, currentTime, duration, volume, isMuted, isShuffled,
                   isRepeat, queue, currentIndex, timers, intervalRef>>
    /\ Rerender

Pending(cs) == {i \in DOMAIN cs : cs[i].pc \in PendingPcs}

RECURSIVE StartedToasts(_)
\* the toasts of lines 458, 481 and 523, in call order
StartedToasts(cs) ==
    IF cs = <<>> THEN <<>>
    ELSE (IF cs[1].pc \in {"play1", "play2"}
          THEN <<Toast("success", "nowPlaying", cs[1].song)>>
          ELSE IF cs[1].pc = "rplay" THEN <<Toast("success", "resumed", NoSong)>>
          ELSE <<>>)
         \o StartedToasts(Tail(cs))

\* playback starts: every pending play() promise resolves, and each invocation
\* runs lines 445-458 (or 468-481, or 511-523 for resumeSong)
PlayStarted ==
    /\ ~MicrotaskPending
    /\ Pending(calls) # {}
    /\ Audible(audio)
    /\ isPlaying' = TRUE
    /\ duration' = IF \E i \in Pending(calls) : calls[i].kind = "play"
                   THEN AudioDuration(audio,
                            TrackSeconds(calls[CHOOSE i \in Pending(calls) :
                                                  calls[i].kind = "play"].song))
                   ELSE duration
    /\ timers' = StartTimer(timers, intervalRef, RealTimer)
    /\ intervalRef' = "live"
    /\ toasts' = StartedToasts(calls)
    /\ calls' = Without(calls, Pending(calls))
    /\ UNCHANGED <<currentSong, currentTime, volume, isMuted, isShuffled, isRepeat,
                   queue, currentIndex, audio>>
    /\ Rerender

\* the browser refuses to start playback: every pending play() promise rejects
PlayRefused ==
    /\ ~MicrotaskPending
    /\ Pending(calls) # {}
    /\ calls' = RejectPending(calls)
    /\ audio' = [audio EXCEPT !.paused = TRUE]
    /\ toasts' = <<>>
    /\ UNCHANGED <<currentSong, isPlaying, currentTime, duration, volume, isMuted,
                   isShuffled, isRepeat, queue, currentIndex, timers, intervalRef>>
    /\ Rerender

\* the continuation of a rejected play() promise of invocation i: the retry
\* without crossOrigin (lines 459-467), the outer catch (lines 482-491), or the
\* simulated cursor of resumeSong (lines 543-561)
Microtask(i) ==
    /\ i \in DOMAIN calls
    /\ calls[i].pc \in ReadyPcs
    /\ \A j \in 1..(i - 1) : calls[j].pc \notin ReadyPcs
    /\ CASE calls[i].pc = "play1Rej" ->
              /\ audio' = [audio EXCEPT !.cross = "null", !.src = calls[i].url,
                                        !.ready = "loading", !.pos = 0,
                                        !.paused = FALSE]
              /\ calls' = [RejectPending(calls) EXCEPT ![i] = [@ EXCEPT !.pc = "play2"]]
              /\ toasts' = <<>>
              /\ UNCHANGED <<isPlaying, timers, intervalRef>>
         [] calls[i].pc = "play2Rej" ->
              /\ toasts' = <<Toast("error", "failedToPlay", calls[i].song)>>
              /\ isPlaying' = FALSE
              /\ calls' = Remove(calls, i)
              /\ UNCHANGED <<audio, timers, intervalRef>>
         [] OTHER ->
              /\ isPlaying' = TRUE
              /\ timers' = StartTimer(timers, intervalRef,
                                      SimTimer(calls[i].dur, calls[i].hs))
              /\ intervalRef' = "live"
              /\ toasts' = <<Toast("success", "resumedDemo", NoSong)>>
              /\ calls' = Remove(calls, i)
              /\ UNCHANGED audio
    /\ UNCHANGED <<currentSong, currentTime, duration, volume, isMuted, isShuffled,
                   isRepeat, queue, currentIndex>>
    /\ Rerender

\* one second of playback
Advance ==
    /\ ~MicrotaskPending
    /\ Audible(audio)
    /\ audio.pos < MediaDuration(audio.src)
    /\ audio' = [audio EXCEPT !.pos = @ + 1]
    /\ toasts' = <<>>
    /\ UNCHANGED <<currentSong, isPlaying, currentTime, duration, volume, isMuted,
                   isShuffled, isRepeat, queue, currentIndex, timers, intervalRef,
                   calls>>
    /\ Rerender

-----------------------------------------------------------------------------
(* Queue navigation and end of track *)

\* a target choice that ignores the shuffle flag
TargetsSequentialOnly(shuf, n, sequential) == {sequential}

\* Math.floor(Math.random() * n), or the sequential target
Targets(shuf, n, sequential) == IF shuf THEN 0..(n - 1) ELSE {sequential}

\* a next index that does not wrap
SequentialNextNoWrap(idx, n) == idx + 1

\* (currentIndex + 1) % queue.length, line 581
SequentialNext(idx, n) == JsMod(idx + 1, n)

\* currentIndex - 1 < 0 ? queue.length - 1 : currentIndex - 1, line 597
SequentialPrevious(idx, n) == IF idx - 1 < 0 THEN n - 1 ELSE idx - 1

\* a playNext that also returns on a queue of one entry
PlayNextBodySkipSingle(a, q, idx, shuf) ==
    IF Len(q) <= 1 THEN NoPlay(a)
    ELSE \E nextIndex \in Targets(shuf, Len(q), SequentialNext(idx, Len(q))) :
            IF Elem(q, nextIndex) # NoSong
            THEN PlaySongBody(a, Elem(q, nextIndex), q, nextIndex)
            ELSE NoPlay(a)

\* playNext (lines 574-588) as a closure over q, idx and shuf
PlayNextBody(a, q, idx, shuf) ==
    IF Len(q) = 0 THEN NoPlay(a)
    ELSE \E nextIndex \in Targets(shuf, Len(q), SequentialNext(idx, Len(q))) :
            IF Elem(q, nextIndex) # NoSong
            THEN PlaySongBody(a, Elem(q, nextIndex), q, nextIndex)
            ELSE NoPlay(a)

\* a playPrevious that plays the previous entry and passes the old index on
PlayPreviousBodyStaleIndex(a, q, idx, shuf) ==
    IF Len(q) = 0 THEN NoPlay(a)
    ELSE \E prevIndex \in Targets(shuf, Len(q), SequentialPrevious(idx, Len(q))) :
            IF Elem(q, prevIndex) # NoSong
            THEN PlaySongBody(a, Elem(q, prevIndex), q, idx)
            ELSE NoPlay(a)

\* playPrevious (lines 590-604) as a closure over q, idx and shuf
PlayPreviousBody(a, q, idx, shuf) ==
    IF Len(q) = 0 THEN NoPlay(a)
    ELSE \E prevIndex \in Targets(shuf, Len(q), SequentialPrevious(idx, Len(q))) :
            IF Elem(q, prevIndex) # NoSong
            THEN PlaySongBody(a, Elem(q, prevIndex), q, prevIndex)
            ELSE NoPlay(a)

\* handleSongEnd (lines 327-333) as the closure cl: playSong(currentSong) takes
\* the default songQueue = [] and index = 0
HandleSongEnd(a, cl) ==
    IF cl.repeat
    THEN IF cl.song # NoSong THEN PlaySongBody(a, cl.song, <<>>, 0) ELSE NoPlay(a)
    ELSE PlayNextBody(a, cl.q, cl.idx, cl.shuf)

\* the closure the 'ended' listener runs: addEventListener('ended', handleSongEnd)
\* in the effect with no dependencies (lines 84-127) keeps the first render's
EndedListener == MountClosure

\* playback reaches the end of the resource: the element pauses itself and
\* fires 'ended'
Ended ==
    /\ ~MicrotaskPending
    /\ Len(calls) < MaxCalls
    /\ Audible(audio)
    /\ audio.pos = MediaDuration(audio.src)
    /\ HandleSongEnd([audio EXCEPT !.paused = TRUE], EndedListener)
    /\ UNCHANGED <<currentTime, duration, volume, isMuted, isShuffled, isRepeat,
                   timers, intervalRef>>
    /\ Rerender

\* a tick of the polling interval (lines 452-456, 475-479, 517-521)
TickReal(k) ==
    /\ ~MicrotaskPending
    /\ k \in DOMAIN timers
    /\ timers[k].kind = "real"
    /\ currentTime' = IF ~audio.paused THEN audio.pos ELSE currentTime
    /\ toasts' = <<>>
    /\ UNCHANGED <<currentSong, isPlaying, duration, volume, isMuted, isShuffled,
                   isRepeat, queue, currentIndex, audio, timers, intervalRef, calls>>
    /\ Rerender

\* a tick of the simulated cursor (lines 530-539, 550-559), with the duration and
\* the handleSongEnd that resumeSong had when it set the interval
TickSim(k) ==
    /\ ~MicrotaskPending
    /\ Len(calls) < MaxCalls
    /\ k \in DOMAIN timers
    /\ timers[k].kind = "sim"
    /\ IF currentTime + 1 >= timers[k].dur
       THEN /\ HandleSongEnd(audio, timers[k].hs)
            /\ currentTime' = 0
       ELSE /\ NoPlay(audio)
            /\ currentTime' = currentTime + 1
    /\ UNCHANGED <<duration, volume, isMuted, isShuffled, isRepeat, timers,
                   intervalRef>>
    /\ Rerender

\* playNext called by the UI, with the state of the latest render
PlayNext ==
    /\ ~MicrotaskPending
    /\ Len(calls) < MaxCalls
    /\ PlayNextBody(audio, queue, currentIndex, isShuffled)
    /\ UNCHANGED <<currentTime, duration, volume, isMuted, isShuffled, isRepeat,
                   timers, intervalRef>>
    /\ Rerender

\* playPrevious called by the UI, with the state of the latest render
PlayPrevious ==
    /\ ~MicrotaskPending
    /\ Len(calls) < MaxCalls
    /\ PlayPreviousBody(audio, queue, currentIndex, isShuffled)
    /\ UNCHANGED <<currentTime, duration, volume, isMuted, isShuffled, isRepeat,
                   timers, intervalRef>>
    /\ Rerender

-----------------------------------------------------------------------------
(* pause and resume *)

\* a pauseSong that halts the transport and forgets the clearInterval
PauseSongBodyKeepsTimer ==
    /\ audio' = [audio EXCEPT !.paused = TRUE]
    /\ calls' = RejectPending(calls)
    /\ isPlaying' = FALSE
    /\ toasts' = <<>>
    /\ UNCHANGED <<currentSong, currentTime, duration, volume, isMuted, isShuffled,
                   isRepeat, queue, currentIndex, timers, intervalRef>>

\* pauseSong, lines 495-503
PauseSongBody ==
    /\ audio' = [audio EXCEPT !.paused = TRUE]
    /\ calls' = RejectPending(calls)
    /\ isPlaying' = FALSE
    /\ timers' = ClearInterval(timers, intervalRef)
    /\ intervalRef' = IF intervalRef = "null" THEN "null" ELSE "cleared"
    /\ toasts' = <<>>
    /\ UNCHANGED <<currentSong, currentTime, duration, volume, isMuted, isShuffled,
                   isRepeat, queue, currentIndex>>

\* a resumeSong that gives up when the transport has no bound source
ResumeSongBodyNoFallback ==
    IF currentSong = NoSong \/ audio.src = NoSrc
    THEN /\ toasts' = <<>>
         /\ UNCHANGED <<currentSong, isPlaying, currentTime, duration, volume, isMuted,
                        isShuffled, isRepeat, queue, currentIndex, audio, timers,
                        intervalRef, calls>>
    ELSE /\ Len(calls) < MaxCalls
         /\ audio' = [audio EXCEPT !.paused = FALSE]
         /\ calls' = Append(calls, Call("resume", currentSong, NoSrc, "rplay",
                                        duration, CurrentClosure))
         /\ toasts' = <<>>
         /\ UNCHANGED <<currentSong, isPlaying, currentTime, duration, volume, isMuted,
                        isShuffled, isRepeat, queue, currentIndex, timers, intervalRef>>

\* resumeSong up to its await, lines 505-542
ResumeSongBody ==
    IF currentSong = NoSong
    THEN /\ toasts' = <<>>
         /\ UNCHANGED <<currentSong, isPlaying, currentTime, duration, volume, isMuted,
                        isShuffled, isRepeat, queue, currentIndex, audio, timers,
                        intervalRef, calls>>
    ELSE IF audio.src # NoSrc
    THEN /\ Len(calls) < MaxCalls
         /\ audio' = [audio EXCEPT
                        !.paused = FALSE,
                        !.pos = IF audio.ready = "ready" /\ @ = MediaDuration(audio.src)
                                THEN 0 ELSE @]
         /\ calls' = Append(calls, Call("resume", currentSong, NoSrc, "rplay",
                                        duration, CurrentClosure))
         /\ toasts' = <<>>
         /\ UNCHANGED <<currentSong, isPlaying, currentTime, duration, volume, isMuted,
                        isShuffled, isRepeat, queue, currentIndex, timers, intervalRef>>
    ELSE /\ isPlaying' = TRUE
         /\ timers' = StartTimer(timers, intervalRef, SimTimer(duration, CurrentClosure))
         /\ intervalRef' = "live"
         /\ toasts' = <<Toast("success", "resumedDemo", NoSong)>>
         /\ UNCHANGED <<currentSong, currentTime, duration, volume, isMuted, isShuffled,
                        isRepeat, queue, currentIndex, audio, calls>>

PauseSong == ~MicrotaskPending /\ PauseSongBody /\ Rerender

ResumeSong == ~MicrotaskPending /\ ResumeSongBody /\ Rerender

\* togglePlayPause, lines 566-572
TogglePlayPause ==
    /\ ~MicrotaskPending
    /\ isPlaying \/ currentSong # NoSong
    /\ IF isPlaying THEN PauseSongBody ELSE ResumeSongBody
    /\ Rerender

-----------------------------------------------------------------------------
(* seek, volume, flags, queue *)

\* a seekTo that moves the transport and leaves the publishing to the next poll
SeekToTransportOnly(time) ==
    /\ ~MicrotaskPending
    /\ audio' = [audio EXCEPT !.pos = SeekTarget(audio, time)]
    /\ toasts' = <<>>
    /\ UNCHANGED <<currentSong, isPlaying, currentTime, duration, volume, isMuted,
                   isShuffled, isRepeat, queue, currentIndex, timers, intervalRef,
                   calls>>
    /\ Rerender

\* seekTo, lines 606-611
SeekTo(time) ==
    /\ ~MicrotaskPending
    /\ audio' = [audio EXCEPT !.pos = SeekTarget(audio, time)]
    /\ currentTime' = time
    /\ toasts' = <<>>
    /\ UNCHANGED <<currentSong, isPlaying, duration, volume, isMuted, isShuffled,
                   isRepeat, queue, currentIndex, timers, intervalRef, calls>>
    /\ Rerender

\* a volume effect that forgets the mute flag
EffectiveVolumeIgnoresMute(muted, v) == v

\* the effect of lines 130-134: audio.volume = isMuted ? 0 : volume
EffectiveVolume(muted, v) == IF muted THEN 0 ELSE v

\* setVolume, the state setter the context exposes (line 668)
SetVolume(v) ==
    /\ ~MicrotaskPending
    /\ volume' = v
    /\ audio' = [audio EXCEPT !.vol = EffectiveVolume(isMuted, v)]
    /\ toasts' = <<>>
    /\ UNCHANGED <<currentSong, isPlaying, currentTime, duration, isMuted, isShuffled,
                   isRepeat, queue, currentIndex, timers, intervalRef, calls>>
    /\ Rerender

\* toggleMute, lines 613-615
ToggleMute ==
    /\ ~MicrotaskPending
    /\ isMuted' = ~isMuted
    /\ audio' = [audio EXCEPT !.vol = EffectiveVolume(~isMuted, volume)]
    /\ toasts' = <<>>
    /\ UNCHANGED <<currentSong, isPlaying, currentTime, duration, volume, isShuffled,
                   isRepeat, queue, currentIndex, timers, intervalRef, calls>>
    /\ Rerender

\* toggleShuffle, lines 617-620
ToggleShuffle ==
    /\ ~MicrotaskPending
    /\ isShuffled' = ~isShuffled
    /\ toasts' = <<Toast("success", IF ~isShuffled THEN "shuffleOn" ELSE "shuffleOff",
                         NoSong)>>
    /\ UNCHANGED <<currentSong, isPlaying, currentTime, duration, volume, isMuted,
                   isRepeat, queue, currentIndex, audio, timers, intervalRef, calls>>
    /\ Rerender

\* toggleRepeat, lines 622-625
ToggleRepeat ==
    /\ ~MicrotaskPending
    /\ isRepeat' = ~isRepeat
    /\ toasts' = <<Toast("success", IF ~isRepeat THEN "repeatOn" ELSE "repeatOff",
                         NoSong)>>
    /\ UNCHANGED <<currentSong, isPlaying, currentTime, duration, volume, isMuted,
                   isShuffled, queue, currentIndex, audio, timers, intervalRef, calls>>
    /\ Rerender

\* an addToQueue that puts the new songs in front of the queue
AddToQueuePrepends(songs) ==
    /\ ~MicrotaskPending
    /\ Len(queue) + Len(songs) <= MaxQueue
    /\ queue' = songs \o queue
    /\ toasts' = <<Toast("success", "added", NoSong)>>
    /\ UNCHANGED <<currentSong, isPlaying, currentTime, duration, volume, isMuted,
                   isShuffled, isRepeat, currentIndex, audio, timers, intervalRef,
                   calls>>
    /\ Rerender

\* addToQueue, lines 627-631; songs is the array Array.isArray normalises to
AddToQueue(songs) ==
    /\ ~MicrotaskPending
    /\ Len(queue) + Len(songs) <= MaxQueue
    /\ queue' = queue \o songs
    /\ toasts' = <<Toast("success", "added", NoSong)>>
    /\ UNCHANGED <<currentSong, isPlaying, currentTime, duration, volume, isMuted,
                   isShuffled, isRepeat, currentIndex, audio, timers, intervalRef,
                   calls>>
    /\ Rerender

\* a clearQueue that empties the queue and leaves the index where it is
ClearQueueKeepsIndex ==
    /\ ~MicrotaskPending
    /\ queue' = <<>>
    /\ toasts' = <<Toast("success", "cleared", NoSong)>>
    /\ UNCHANGED <<currentSong, isPlaying, currentTime, duration, volume, isMuted,
                   isShuffled, isRepeat, currentIndex, audio, timers, intervalRef,
                   calls>>
    /\ Rerender

\* clearQueue, lines 633-637
ClearQueue ==
    /\ ~MicrotaskPending
    /\ queue' = <<>>
    /\ currentIndex' = 0
    /\ toasts' = <<Toast("success", "cleared", NoSong)>>
    /\ UNCHANGED <<currentSong, isPlaying, currentTime, duration, volume, isMuted,
                   isShuffled, isRepeat, audio, timers, intervalRef, calls>>
    /\ Rerender

-----------------------------------------------------------------------------
(* The specification *)

\* what SongCard.handlePlaySong passes: the song alone, or the song with its
\* playlist and its place in it
PlayInputs ==
    {<<t, <<>>, 0>> : t \in Tracks}
    \cup UNION {{<<pl[k + 1], pl, k>> : k \in 0..(Len(pl) - 1)} : pl \in Playlists}

\* the songs addToQueue is given
AddInputs == {<<1>>, <<2, 3>>}

UserPlay == \E in \in PlayInputs : PlaySong(in[1], in[2], in[3])

SearchEnds == \E i \in 1..MaxCalls, o \in SearchOutcomes : SearchDone(i, o)

Microtasks == \E i \in 1..MaxCalls : Microtask(i)

RealTicks == \E k \in 1..2 : TickReal(k)

SimTicks == \E k \in 1..2 : TickSim(k)

\* handleProgressClick (lines 771-777): a fraction of the published duration
Seeks == \E t \in Times : t <= duration /\ SeekTo(t)

VolumeChanges == \E v \in Volumes : SetVolume(v)

Adds == \E songs \in AddInputs : AddToQueue(songs)

Next ==
    \/ UserPlay
    \/ SearchEnds
    \/ LoadedMetadata
    \/ CanPlay
    \/ LoadError
    \/ PlaybackError
    \/ PlayStarted
    \/ PlayRefused
    \/ Microtasks
    \/ Advance
    \/ Ended
    \/ RealTicks
    \/ SimTicks
    \/ PlayNext
    \/ PlayPrevious
    \/ PauseSong
    \/ ResumeSong
    \/ TogglePlayPause
    \/ Seeks
    \/ VolumeChanges
    \/ ToggleMute
    \/ ToggleShuffle
    \/ ToggleRepeat
    \/ Adds
    \/ ClearQueue

Spec == Init /\ [][Next]_vars

\* play calls and what the search and the transport answer
NextPlay ==
    \/ UserPlay
    \/ SearchEnds
    \/ LoadedMetadata
    \/ CanPlay
    \/ LoadError
    \/ PlaybackError
    \/ PlayStarted
    \/ PlayRefused
    \/ Microtasks
    \/ Advance
    \/ RealTicks

SpecPlay == Init /\ [][NextPlay]_vars

\* play of the playlist from its first entry, or of one song alone
StartPlay ==
    \/ \E pl \in Playlists : PlaySong(pl[1], pl, 0)
    \/ \E t \in Tracks : PlaySong(t, <<>>, 0)

\* queue navigation and the end of a track
NextQueue ==
    \/ StartPlay
    \/ SearchEnds
    \/ LoadedMetadata
    \/ CanPlay
    \/ PlayStarted
    \/ Microtasks
    \/ Advance
    \/ Ended
    \/ PlayNext
    \/ PlayPrevious
    \/ ToggleShuffle
    \/ ToggleRepeat
    \/ ClearQueue

SpecQueue == Init /\ [][NextQueue]_vars

\* play of the playlist from its first entry
PlaylistPlay == \E pl \in Playlists : PlaySong(pl[1], pl, 0)

\* everything that starts or cancels a progress timer
NextTimer ==
    \/ PlaylistPlay
    \/ SearchEnds
    \/ LoadedMetadata
    \/ CanPlay
    \/ LoadError
    \/ PlayStarted
    \/ PlayRefused
    \/ Microtasks
    \/ Advance
    \/ Ended
    \/ RealTicks
    \/ SimTicks
    \/ PlayNext
    \/ PlayPrevious
    \/ PauseSong
    \/ ResumeSong

SpecTimer == Init /\ [][NextTimer]_vars

\* a track played alone or from the playlist, paused and resumed, with the
\* timers resume starts
NextResume ==
    \/ StartPlay
    \/ SearchEnds
    \/ LoadedMetadata
    \/ CanPlay
    \/ PlayStarted
    \/ PlayRefused
    \/ Microtasks
    \/ Advance
    \/ RealTicks
    \/ SimTicks
    \/ PauseSong
    \/ ResumeSong

SpecResume == Init /\ [][NextResume]_vars

\* everything that writes the queue or the index: play, next, previous,
\* addToQueue, clearQueue and the end of a track
NextIndex ==
    \/ UserPlay
    \/ SearchEnds
    \/ LoadedMetadata
    \/ CanPlay
    \/ PlayStarted
    \/ Microtasks
    \/ Advance
    \/ Ended
    \/ PlayNext
    \/ PlayPrevious
    \/ Adds
    \/ ClearQueue

SpecIndex == Init /\ [][NextIndex]_vars

\* play, pause and seek in every state of the controller
NextSeek ==
    \/ UserPlay
    \/ SearchEnds
    \/ LoadedMetadata
    \/ CanPlay
    \/ LoadError
    \/ PlayStarted
    \/ Microtasks
    \/ Advance
    \/ RealTicks
    \/ PauseSong
    \/ Seeks

SpecSeek == Init /\ [][NextSeek]_vars

\* a play of the playlist up to the natural end of the track
NextEnd ==
    \/ PlaylistPlay
    \/ SearchEnds
    \/ LoadedMetadata
    \/ CanPlay
    \/ PlayStarted
    \/ Microtasks
    \/ Advance
    \/ Ended
    \/ RealTicks

\* the search answers, the transport loads, starts, plays on and signals its
\* end, continuations and timer callbacks run; the user need not act
FairEnd ==
    /\ WF_vars(SearchEnds)
    /\ WF_vars(LoadedMetadata)
    /\ WF_vars(CanPlay)
    /\ WF_vars(PlayStarted)
    /\ WF_vars(Microtasks)
    /\ WF_vars(Advance)
    /\ WF_vars(Ended)
    /\ WF_vars(RealTicks)

SpecEnd == Init /\ [][NextEnd]_vars /\ FairEnd

\* the user plays tracks in catalogue order, each at most once, overlapping or
\* not
PlayOnce == \E in \in PlayInputs : in[1] > currentSong /\ PlaySong(in[1], in[2], in[3])

\* the transport answers a load: metadata, ready, or error
TransportLoads == LoadedMetadata \/ CanPlay \/ LoadError

\* the transport answers a start: started or refused
TransportStarts == PlayStarted \/ PlayRefused

\* play calls and the answers of the search and of the transport
NextSettle ==
    \/ PlayOnce
    \/ SearchEnds
    \/ TransportLoads
    \/ TransportStarts
    \/ Microtasks

\* the search and the transport each eventually respond, and continuations run
FairSettle ==
    /\ WF_vars(SearchEnds)
    /\ WF_vars(TransportLoads)
    /\ WF_vars(TransportStarts)
    /\ WF_vars(Microtasks)

SpecSettle == Init /\ [][NextSettle]_vars /\ FairSettle

\* end-of-track handling as the simulated cursor runs it, with repeat on or off,
\* around next, previous and addToQueue
NextRepeat ==
    \/ StartPlay
    \/ SearchEnds
    \/ ResumeSong
    \/ SimTicks
    \/ ToggleRepeat
    \/ PlayNext
    \/ PlayPrevious
    \/ Adds

SpecRepeat == Init /\ [][NextRepeat]_vars

\* volume, mute, shuffle and repeat around a play of the playlist
NextControls ==
    \/ PlaylistPlay
    \/ SearchEnds
    \/ LoadedMetadata
    \/ CanPlay
    \/ PlayStarted
    \/ PlayRefused
    \/ Microtasks
    \/ VolumeChanges
    \/ ToggleMute
    \/ ToggleShuffle
    \/ ToggleRepeat

SpecControls == Init /\ [][NextControls]_vars

-----------------------------------------------------------------------------
(* Overlapping play calls *)

\* invocation i has been superseded: a later playSong, of another track, is in
\* flight behind it
Superseded(i) ==
    \E j \in DOMAIN calls :
        j > i /\ calls[j].kind = "play" /\ calls[j].song # calls[i].song

\* C1: when the search of a play call completes after a later play call was
\* made, the current track stays the later call's and the completion changes
\* neither the transport, nor the transport flag, the duration or the timer.
C1_SupersededResolutionChangesNothing ==
    [][\A i \in 1..MaxCalls, o \in SearchOutcomes :
          (SearchDone(i, o) /\ Superseded(i))
          => /\ currentSong' = currentSong
             /\ UNCHANGED <<audio, isPlaying, duration, timers, intervalRef>>]_vars

\* the sources playSong can bind for track t
SourcesOf(t) == {DirectUrl(t), ProxyUrl(t)}

\* C5: there is no state where the current track is T, the transport flag is
\* not Playing and the transport still plays the source of another track (no
\* play call of another track being in flight).
C5_PreviousPlaybackStopped ==
    ~(/\ currentSong # NoSong
      /\ ~isPlaying
      /\ Audible(audio)
      /\ audio.src \notin SourcesOf(currentSong)
      /\ \A i \in DOMAIN calls : calls[i].song = currentSong)

\* C6: once a play call has bound its source, the load-wait handlers of every
\* earlier play call are gone: each invocation whose canplay/error listeners are
\* installed waits for the source that is bound.
C6_EarlierHandlersRemoved ==
    \A i \in Waiting(calls) : calls[i].url = audio.src

\* C10: every play call leaves the published elapsed time at 0.
C10_PlayResetsElapsedTime == [][UserPlay => currentTime' = 0]_vars

\* C4: a play call replaces current track, Queue and index with its arguments
\* (the singleton queue when none is given), and no later step of a play call
\* (search, load, start, retry, failure) changes them.
C4_PlayReplacesUnconditionally ==
    [][/\ \A in \in PlayInputs :
             PlaySong(in[1], in[2], in[3])
             => /\ currentSong' = in[1]
                /\ queue' = (IF in[2] = <<>> THEN <<in[1]>> ELSE in[2])
                /\ currentIndex' = in[3]
       /\ (SearchEnds \/ LoadedMetadata \/ CanPlay \/ LoadError \/ PlaybackError
             \/ PlayStarted \/ PlayRefused \/ Microtasks)
          => UNCHANGED <<currentSong, queue, currentIndex>>]_vars

\* play(A) without a queue has ended unavailable, and A alone is the Queue
C4_Witness ==
    /\ currentSong = 1
    /\ queue = <<1>>
    /\ currentIndex = 0
    /\ calls = <<>>
    /\ toasts = <<Toast("error", "noPreview", 1)>>

-----------------------------------------------------------------------------
(* Source resolution *)

\* the invocations whose search is in flight
Searching(cs) == {i \in DOMAIN cs : cs[i].pc = "search"}

\* C11: a play of a track with a preview URL binds exactly that URL and issues
\* no search; a play of a track without one issues exactly one search and binds
\* nothing yet; a candidate found is bound behind the proxy URL, once, with no
\* further search; no candidate or a failed search ends unavailable with
\* nothing bound; and no search and no proxied source ever exists for a track
\* that has a preview URL.
C11_ResolutionFollowsChain ==
    /\ [](/\ \A i \in DOMAIN calls :
                /\ calls[i].pc = "search" => ~HasPreview(calls[i].song)
                /\ calls[i].url # NoSrc
                   => calls[i].url = (IF HasPreview(calls[i].song)
                                      THEN <<"direct", calls[i].song>>
                                      ELSE <<"proxied", calls[i].song>>)
          /\ audio.src # NoSrc
             => audio.src = (IF HasPreview(audio.src[2])
                             THEN <<"direct", audio.src[2]>>
                             ELSE <<"proxied", audio.src[2]>>))
    /\ [][/\ \A in \in PlayInputs :
               PlaySong(in[1], in[2], in[3])
               => IF HasPreview(in[1])
                  THEN /\ audio'.src = <<"direct", in[1]>>
                       /\ Cardinality(Searching(calls')) = Cardinality(Searching(calls))
                  ELSE /\ audio' = audio
                       /\ Cardinality(Searching(calls'))
                            = Cardinality(Searching(calls)) + 1
          /\ \A i \in 1..MaxCalls :
               /\ SearchDone(i, "found")
                  => /\ audio'.src = <<"proxied", calls[i].song>>
                     /\ calls'[i].url = audio'.src
                     /\ Searching(calls') = Searching(calls) \ {i}
               /\ (SearchDone(i, "none") \/ SearchDone(i, "error"))
                  => /\ audio' = audio
                     /\ calls' = Remove(calls, i)]_vars

\* the search of play(A) found a candidate and the proxy URL was just bound
C11_Witness ==
    /\ currentSong = 1
    /\ audio.src = <<"proxied", 1>>
    /\ audio.ready = "loading"
    /\ toasts = <<Toast("success", "found", NoSong)>>

\* C12: a search that returns no candidate and a search that fails end the play
\* attempt alike: the transport flag is not Playing, one error message naming
\* the track is reported, the invocation is over, and transport, timer,
\* duration and elapsed time are as they were (nothing bound, nothing started).
C12_UnavailableEndsStopped ==
    [][\A i \in 1..MaxCalls : \A o \in {"none", "error"} :
          SearchDone(i, o)
          => /\ ~isPlaying'
             /\ Len(toasts') = 1
             /\ toasts'[1].level = "error"
             /\ toasts'[1].song = calls[i].song
             /\ calls' = Remove(calls, i)
             /\ UNCHANGED <<audio, timers, intervalRef, duration, currentTime>>]_vars

\* the search of play(A) failed while nothing had ever been bound
C12_Witness ==
    /\ currentSong = 1
    /\ ~isPlaying
    /\ audio.src = NoSrc
    /\ calls = <<>>
    /\ toasts = <<Toast("error", "previewNotAvailable", 1)>>

\* the play of the current track ended unavailable: it has no preview URL, no
\* invocation is in flight and nothing was ever bound
StoppedUnavailable ==
    /\ currentSong # NoSong
    /\ ~HasPreview(currentSong)
    /\ calls = <<>>
    /\ audio.src = NoSrc

\* C14: once the play of track T has ended unavailable, no timer tick starts a
\* play of T (and with it a new search), also after resume was invoked.
C14_UnavailableNotRetried ==
    [][((SimTicks \/ RealTicks) /\ StoppedUnavailable)
       => \A i \in DOMAIN calls' : calls'[i].song # currentSong]_vars

\* C30: every play call in flight eventually settles (no invocation stays
\* pending), and the step on which an invocation ends leaves the controller
\* either Playing with one progress timer running and the track announced, or
\* not Playing with an error reported.
C30_EveryPlaySettles ==
    /\ [][Len(calls') < Len(calls)
          => \/ /\ isPlaying'
                /\ Len(timers') = 1
                /\ \E k \in DOMAIN toasts' : toasts'[k].msg = "nowPlaying"
             \/ /\ ~isPlaying'
                /\ \E k \in DOMAIN toasts' : toasts'[k].level = "error"]_vars
    /\ (calls # <<>>) ~> (calls = <<>>)

\* two overlapping play calls have both settled on the same start of playback
C30_Witness ==
    /\ calls = <<>>
    /\ isPlaying
    /\ currentSong = 3
    /\ timers = <<RealTimer>>
    /\ toasts = <<Toast("success", "nowPlaying", 2), Toast("success", "nowPlaying", 3)>>

-----------------------------------------------------------------------------
(* Transport errors *)

\* C13: after a transport error (while loading or while playing) is handled,
\* the transport flag is not Playing and no progress timer remains active.
C13_ErrorCancelsTimer ==
    [][(LoadError \/ PlaybackError) => (~isPlaying' /\ timers' = <<>>)]_vars

\* C15: when the transport reports an error while an invocation waits for its
\* resource to become playable, that invocation retries with the relaxed
\* cross-origin mode: it is still in flight afterwards, on a transport whose
\* crossOrigin is null.
C15_LoadErrorRetriesOnce ==
    [][(LoadError /\ Waiting(calls) # {})
       => /\ audio'.cross = "null"
          /\ \A i \in Waiting(calls) :
                \E j \in DOMAIN calls' : calls'[j].song = calls[i].song]_vars

-----------------------------------------------------------------------------
(* The progress timer *)

\* C2: at most one progress timer (polling or simulated) is set and not
\* cleared, in every reachable state.
C2_AtMostOneTimer == Len(timers) <= 1

\* a play call has just started its polling timer (its toast is the last one)
\* after an earlier timer had already published progress
C2_Witness ==
    /\ timers = <<RealTimer>>
    /\ toasts = <<Toast("success", "nowPlaying", 2)>>
    /\ currentTime > 0
    /\ isPlaying

\* playback has ended: the transport sits at the end of its resource
PlaybackEnded ==
    /\ audio.src # NoSrc
    /\ audio.ready = "ready"
    /\ audio.pos = MediaDuration(audio.src)

\* C17: the published elapsed time is at most the published duration in every
\* reachable state, except while the transport sits at the end of its resource.
C17_ElapsedWithinDuration == PlaybackEnded \/ currentTime <= duration

\* C25: while the controller is Playing the same track, a timer tick (a step
\* that is neither a seek nor a play call nor a restart) never lowers the
\* published elapsed time.
C25_ElapsedMonotonic ==
    [][((RealTicks \/ SimTicks)
        /\ isPlaying /\ isPlaying'
        /\ currentSong' = currentSong
        /\ calls' = calls)
       => currentTime' >= currentTime]_vars

\* the transport is not actively running: paused (also at the end of the
\* resource), failed, or without a source
TransportIdle == audio.paused \/ audio.ready = "error" \/ audio.src = NoSrc

\* C26: a timer tick in a state where the transport is paused, ended or failed
\* leaves the published elapsed time unchanged.
C26_TickOnlyWhileRunning ==
    [][((RealTicks \/ SimTicks) /\ TransportIdle) => currentTime' = currentTime]_vars

-----------------------------------------------------------------------------
(* pause and resume *)

\* C18: pause() invoked while Playing leaves the transport flag not Playing,
\* the transport halted and no timer active, and changes neither current
\* track, Queue, index nor elapsed time.
C18_PauseHaltsAndCancels ==
    [][(PauseSong /\ isPlaying)
       => /\ ~isPlaying'
          /\ audio'.paused
          /\ timers' = <<>>
          /\ UNCHANGED <<currentSong, queue, currentIndex, currentTime>>]_vars

\* playback of a track was paused midway, after the poll had published progress
C18_Witness ==
    /\ currentSong # NoSong
    /\ ~isPlaying
    /\ audio.paused
    /\ audio.ready = "ready"
    /\ audio.pos > 0
    /\ currentTime > 0
    /\ intervalRef = "cleared"
    /\ timers = <<>>
    /\ calls = <<>>
    /\ toasts = <<>>

\* C19: pause() invoked while the transport flag is not Playing changes
\* nothing: PlaybackState, the transport, the progress timer and the play
\* calls in flight are as they were.
C19_PauseNoOpWhenNotPlaying ==
    [][(PauseSong /\ ~isPlaying)
       => UNCHANGED <<currentSong, queue, currentIndex, isPlaying, currentTime,
                      duration, audio, timers, calls>>]_vars

\* the resumeSong invocations whose play() promise is pending
Resuming(cs) == {i \in DOMAIN cs : cs[i].pc = "rplay"}

-----------------------------------------------------------------------------
(* volume and flags *)

\* what setVolume and the three toggles leave alone
ControlsFrame ==
    <<currentSong, queue, currentIndex, isPlaying, currentTime, duration, timers,
      intervalRef, calls>>

\* C23: setVolume, toggleMute, toggleShuffle and toggleRepeat each change only
\* their own field; of the transport they change at most the volume, which is 0
\* when muted and the stored volume otherwise in every reachable state, so that
\* unmuting restores it.
C23_ControlsChangeOwnField ==
    /\ [](audio.vol = IF isMuted THEN 0 ELSE volume)
    /\ [][/\ \A v \in Volumes :
                SetVolume(v)
                => volume' = v /\ UNCHANGED <<isMuted, isShuffled, isRepeat>>
          /\ ToggleMute
             => /\ isMuted' = ~isMuted
                /\ UNCHANGED <<volume, isShuffled, isRepeat>>
                /\ isMuted => audio'.vol = volume
          /\ ToggleShuffle
             => /\ isShuffled' = ~isShuffled
                /\ UNCHANGED <<volume, isMuted, isRepeat, audio>>
          /\ ToggleRepeat
             => /\ isRepeat' = ~isRepeat
                /\ UNCHANGED <<volume, isMuted, isShuffled, audio>>
          /\ (VolumeChanges \/ ToggleMute \/ ToggleShuffle \/ ToggleRepeat)
             => /\ UNCHANGED ControlsFrame
                /\ audio' = [audio EXCEPT !.vol = audio'.vol]]_vars

\* muted at the lower volume while a track plays, shuffle and repeat both on
C23_Witness ==
    /\ isPlaying
    /\ isMuted
    /\ volume = 3
    /\ audio.vol = 0
    /\ isShuffled
    /\ isRepeat

-----------------------------------------------------------------------------
(* seek *)

\* C21: seek(t) sets the transport position and the published elapsed time to
\* t in the same step, in every controller state, and changes no other field of
\* PlaybackState (nor the timer or the calls in flight).
C21_SeekPublishesAtOnce ==
    [][\A t \in Times :
          (t <= duration /\ SeekTo(t))
          => /\ audio'.pos = t
             /\ currentTime' = t
             /\ audio' = [audio EXCEPT !.pos = t]
             /\ UNCHANGED <<currentSong, isPlaying, duration, volume, isMuted,
                            isShuffled, isRepeat, queue, currentIndex, timers,
                            intervalRef, calls>>]_vars

\* a seek to 1 while the next track is loading: only a seek moves the position
\* of a transport that has not loaded its resource
C21_Witness ==
    /\ audio.ready = "loading"
    /\ audio.pos = 1
    /\ currentTime = 1
    /\ toasts = <<>>

-----------------------------------------------------------------------------
(* Queue navigation and end of track *)

\* the transport has played the current track to its end, nothing else pending
AtNaturalEnd ==
    /\ currentSong # NoSong
    /\ audio.src \in SourcesOf(currentSong)
    /\ audio.pos = MediaDuration(audio.src)
    /\ calls = <<>>

\* C3: with Queue = [A, B, C], repeat and shuffle off, each natural end of the
\* current track moves the current track to the next Queue entry, wrapping
\* (A, B, C, A).
C3_NaturalEndAdvances ==
    [][(/\ Ended
        /\ AtNaturalEnd
        /\ ~isRepeat /\ ~isShuffled
        /\ queue = <<1, 2, 3>>
        /\ currentSong = Elem(queue, currentIndex))
       => /\ currentIndex' = (currentIndex + 1) % 3
          /\ currentSong' = Elem(queue, currentIndex')]_vars

\* the transport flag is Playing while the transport has finished and nothing
\* is being started
FinishedPlaying ==
    /\ isPlaying
    /\ audio.src # NoSrc
    /\ audio.paused
    /\ audio.ready = "ready"
    /\ audio.pos = MediaDuration(audio.src)
    /\ calls = <<>>

\* C28: a state where the transport flag is Playing while the transport has
\* finished leads to a state where a track is being started or plays, or where
\* the transport flag is not Playing.
C28_EndDoesNotStrand ==
    FinishedPlaying ~> (~isPlaying \/ calls # <<>> \/ Audible(audio))

\* C9: at the natural end of the current track, with repeat enabled a play of
\* the same track is started, with repeat disabled next() is invoked.
C9_EndFollowsRepeat ==
    [][(Ended /\ AtNaturalEnd /\ Len(queue) > 0 /\ currentIndex \in 0..(Len(queue) - 1))
       => /\ Len(calls') = 1
          /\ calls'[1].kind = "play"
          /\ IF isRepeat
             THEN currentSong' = currentSong /\ calls'[1].song = currentSong
             ELSE \E i \in 0..(Len(queue) - 1) :
                     /\ isShuffled \/ i = (currentIndex + 1) % Len(queue)
                     /\ currentIndex' = i
                     /\ currentSong' = Elem(queue, i)]_vars

RECURSIVE VisitedNext(_, _, _)
\* the indices k successive sequential next() calls reach from index i
VisitedNext(i, n, k) ==
    IF k = 0 THEN <<>>
    ELSE <<SequentialNext(i, n)>> \o VisitedNext(SequentialNext(i, n), n, k - 1)

RECURSIVE VisitedPrevious(_, _, _)
\* the indices k successive sequential previous() calls reach from index i
VisitedPrevious(i, n, k) ==
    IF k = 0 THEN <<>>
    ELSE <<SequentialPrevious(i, n)>>
         \o VisitedPrevious(SequentialPrevious(i, n), n, k - 1)

\* n calls visit every index once and end where they started
RoundTrip(visited, i, n) ==
    /\ visited[n] = i
    /\ {visited[k] : k \in 1..n} = 0..(n - 1)

\* C7: under sequential mode, with n >= 2 entries and the index i in range,
\* next() plays Queue[(i + 1) mod n] and previous() plays Queue[(i - 1 + n) mod n],
\* each setting the index to it and keeping the Queue; n successive calls of
\* either visit every index once and return to i.
C7_SequentialRoundRobin ==
    /\ \A n \in 2..(MaxQueue + 1) : \A i \in 0..(n - 1) :
          /\ RoundTrip(VisitedNext(i, n, n), i, n)
          /\ RoundTrip(VisitedPrevious(i, n, n), i, n)
    /\ [][(~isShuffled /\ Len(queue) >= 2 /\ currentIndex \in 0..(Len(queue) - 1))
          => /\ PlayNext
                => /\ currentIndex' = (currentIndex + 1) % Len(queue)
                   /\ currentSong' = Elem(queue, currentIndex')
                   /\ queue' = queue
             /\ PlayPrevious
                => /\ currentIndex' = (currentIndex - 1 + Len(queue)) % Len(queue)
                   /\ currentSong' = Elem(queue, currentIndex')
                   /\ queue' = queue]_vars

\* the last entry of the three-entry Queue is current, in sequential mode
C7_Witness ==
    /\ queue = <<1, 2, 3>>
    /\ currentIndex = 2
    /\ currentSong = 3
    /\ ~isShuffled
    /\ Len(calls) = 2
    /\ calls[1].song = 1
    /\ calls[2].song = 3

\* C22: addToQueue appends the given songs after the existing entries and
\* leaves the index alone, clearQueue empties the Queue and sets the index to 0,
\* and neither changes current track, transport flag, elapsed time, duration,
\* the transport, the timer or the calls in flight.
C22_QueueEditsFrame ==
    [][/\ \A songs \in AddInputs :
             AddToQueue(songs)
             => /\ Len(queue') = Len(queue) + Len(songs)
                /\ SubSeq(queue', 1, Len(queue)) = queue
                /\ SubSeq(queue', Len(queue) + 1, Len(queue')) = songs
                /\ currentIndex' = currentIndex
       /\ ClearQueue => (queue' = <<>> /\ currentIndex' = 0)
       /\ (Adds \/ ClearQueue)
          => UNCHANGED <<currentSong, isPlaying, currentTime, duration, audio,
                         timers, intervalRef, calls>>]_vars

\* two tracks were appended behind the track that is playing alone
C22_Witness ==
    /\ currentSong = 3
    /\ isPlaying
    /\ queue = <<3, 2, 3>>
    /\ currentIndex = 0
    /\ toasts = <<Toast("success", "added", NoSong)>>

\* C16 as claimed: whenever the current track is non-null, the current index is
\* a valid index into the Queue.
C16_IndexValid ==
    currentSong # NoSong => currentIndex \in 0..(Len(queue) - 1)

\* C16: whenever the current track is non-null, the current index is a valid
\* index into the Queue, or the Queue is empty and the index is 0 (clearQueue
\* under a current track).
C16_IndexValidOrCleared ==
    currentSong # NoSong
    => \/ currentIndex \in 0..(Len(queue) - 1)
       \/ queue = <<>> /\ currentIndex = 0

\* clearQueue has just emptied the Queue under the last track of the playlist
C16_Witness ==
    /\ currentSong = 3
    /\ queue = <<>>
    /\ currentIndex = 0
    /\ toasts = <<Toast("success", "cleared", NoSong)>>

\* C24: under shuffle with a non-empty Queue, whenever next() and previous()
\* can be called each index of [0, |Queue|) is a possible target of either, the
\* current index included, and the target they choose is always in the range:
\* the entry there becomes the current track and the Queue is kept.
C24_ShuffleWholeRange ==
    /\ []((isShuffled /\ Len(queue) > 0 /\ ENABLED PlayNext)
          => \A i \in 0..(Len(queue) - 1) :
                /\ ENABLED (PlayNext /\ currentIndex' = i)
                /\ ENABLED (PlayPrevious /\ currentIndex' = i))
    /\ [][((PlayNext \/ PlayPrevious) /\ isShuffled /\ Len(queue) > 0)
          => /\ currentIndex' \in 0..(Len(queue) - 1)
             /\ currentSong' = Elem(queue, currentIndex')
             /\ queue' = queue]_vars

\* under shuffle the track playing at index 1 was chosen again
C24_Witness ==
    /\ isShuffled
    /\ queue = <<1, 2, 3>>
    /\ currentIndex = 1
    /\ currentSong = 2
    /\ Len(calls) = 1
    /\ calls[1].song = 2
    /\ calls[1].pc = "load"
    /\ audio.src = DirectUrl(2)
    /\ duration = MaxTime

\* end-of-track handling under repeat starts a play of the current track
RepeatRestart ==
    /\ SimTicks \/ Ended
    /\ isRepeat
    /\ currentSong # NoSong
    /\ currentSong' = currentSong
    /\ Len(calls') = Len(calls) + 1
    /\ calls'[Len(calls')].song = currentSong

\* C27: a repeat-triggered restart at the end of a track leaves Queue and
\* index as they were.
C27_RepeatKeepsQueue ==
    [][RepeatRestart => (queue' = queue /\ currentIndex' = currentIndex)]_vars

\* a step of next(), previous() or end-of-track handling that starts a play
PlayFromNavigation ==
    /\ PlayNext \/ PlayPrevious \/ SimTicks \/ Ended
    /\ Len(calls') = Len(calls) + 1

\* C29: whenever next(), previous() or end-of-track handling starts a play,
\* the Queue it leaves is non-empty and its entry at the index is the current
\* track; and addToQueue keeps Queue[index] = current track true.
C29_IndexPointsAtCurrent ==
    [][/\ PlayFromNavigation
          => /\ queue' # <<>>
             /\ Elem(queue', currentIndex') = currentSong'
             /\ calls'[Len(calls')].song = currentSong'
       /\ (Adds /\ currentSong # NoSong /\ Elem(queue, currentIndex) = currentSong)
          => Elem(queue', currentIndex') = currentSong']_vars

\* next() moved on to a track that had been appended, and another track was
\* appended behind it
C29_Witness ==
    /\ currentSong = 1
    /\ currentIndex = 1
    /\ queue = <<2, 1, 1>>
    /\ toasts = <<Toast("success", "added", NoSong)>>

\* what a call of next() or previous() that does nothing leaves alone
NavigationFrame ==
    <<currentSong, currentIndex, queue, isPlaying, currentTime, duration, audio,
      calls, timers, intervalRef>>

====
